---- MODULE Spec2Model ----
(***************************************************************************)
(* Hilbert curve codec (hilbert_curve.py): index <-> (x, y) conversion,    *)
(* curve enumeration, index matrix, grid inversion, the order-3 reference  *)
(* table and the hilbertcurve-compatible aliases.                          *)
(*                                                                         *)
(* The functions are pure; the state machine is a caller that invokes one  *)
(* function at a time.  The two codec loops run one iteration per step so  *)
(* that every intermediate integer is observable.                          *)
(***************************************************************************)
EXTENDS Integers, Sequences, FiniteSets, TLC

VARIABLES pc, call, fr, ret

vars == <<pc, call, fr, ret>>

\* Largest curve order the caller passes.
MaxOrder == 3

\* The caller passes indices below OverRange * 4^order and coordinates below
\* OverRange * 2^order, so inputs past the valid domain are exercised.
OverRange == 3

\* Grids handed to hilbert_curve_to_coordinates: at most MaxRows rows of at
\* most MaxCols cells holding values 0..MaxVal.
MaxRows == 2

MaxCols == 2

MaxVal == 2

----------------------------------------------------------------------------
(* Python integer operators *)

RECURSIVE Pow(_, _)
\* base ** e for e >= 0
Pow(base, e) == IF e = 0 THEN 1 ELSE base * Pow(base, e - 1)

RECURSIVE BitAnd(_, _)
\* a & b on unbounded two's-complement integers (\div floors, % is >= 0)
BitAnd(a, b) ==
    IF a = 0 \/ b = 0 THEN 0
    ELSE IF a = -1 THEN b
    ELSE IF b = -1 THEN a
    ELSE (a % 2) * (b % 2) + 2 * BitAnd(a \div 2, b \div 2)

RECURSIVE BitXor(_, _)
\* a ^ b on unbounded two's-complement integers
BitXor(a, b) ==
    IF a = 0 THEN b
    ELSE IF b = 0 THEN a
    ELSE IF a = -1 THEN -1 - b
    ELSE IF b = -1 THEN -1 - a
    ELSE (((a % 2) + (b % 2)) % 2) + 2 * BitXor(a \div 2, b \div 2)

----------------------------------------------------------------------------
(* Static reference *)

HILBERT_3 ==
    << << 0,  3,  4,  5, 58, 59, 60, 63>>,
       << 1,  2,  7,  6, 57, 56, 61, 62>>,
       <<14, 13,  8,  9, 54, 55, 50, 49>>,
       <<15, 12, 11, 10, 53, 52, 51, 48>>,
       <<16, 17, 30, 31, 32, 33, 46, 47>>,
       <<19, 18, 29, 28, 35, 34, 45, 44>>,
       <<20, 23, 24, 27, 36, 39, 40, 43>>,
       <<21, 22, 25, 26, 37, 38, 41, 42>> >>

----------------------------------------------------------------------------
(* Internal *)

\* _hilbert_rotate without the reflection of the rx = 1 quadrant
_hilbert_rotate_no_reflect(n, x, y, rx, ry) ==
    IF ry = 0 THEN <<y, x>> ELSE <<x, y>>

\* _hilbert_rotate(n, x, y, rx, ry): the returned (x, y)
_hilbert_rotate(n, x, y, rx, ry) ==
    IF ry = 0
    THEN IF rx = 1
         THEN <<n - 1 - y, n - 1 - x>>
         ELSE <<y, x>>
    ELSE <<x, y>>

\* the integers _hilbert_rotate computes on the way: n - 1, n - 1 - x, n - 1 - y
_hilbert_rotate_computed(n, x, y, rx, ry) ==
    IF ry = 0 /\ rx = 1 THEN {n - 1, n - 1 - x, n - 1 - y} ELSE {}

----------------------------------------------------------------------------
(* hilbert_index_to_point *)

\* locals after lines 38-41
hilbert_index_to_point_entry(order, index) ==
    [n |-> Pow(2, order), x |-> 0, y |-> 0, t |-> index, s |-> 1,
     computed |-> {order, index, Pow(2, order), 0, 1}]

\* the loop body with ry = 1 & t, the XOR with rx dropped
hilbert_index_to_point_body_no_xor(f) ==
    LET half == f.t \div 2
        rx   == BitAnd(1, half)
        ry   == BitAnd(1, f.t)
        r    == _hilbert_rotate(f.s, f.x, f.y, rx, ry)
        sx   == f.s * rx
        sy   == f.s * ry
    IN  [n |-> f.n,
         x |-> r[1] + sx,
         y |-> r[2] + sy,
         t |-> f.t \div 4,
         s |-> f.s * 2,
         computed |-> {f.x, f.y, half, rx, ry, r[1], r[2], sx, sy,
                       r[1] + sx, r[2] + sy, f.t \div 4, f.s * 2}
                      \cup _hilbert_rotate_computed(f.s, f.x, f.y, rx, ry)]

\* the loop body with the two offsets exchanged: x += s * ry, y += s * rx
hilbert_index_to_point_body_swapped_offsets(f) ==
    LET half == f.t \div 2
        rx   == BitAnd(1, half)
        txr  == BitXor(f.t, rx)
        ry   == BitAnd(1, txr)
        r    == _hilbert_rotate(f.s, f.x, f.y, rx, ry)
        sx   == f.s * ry
        sy   == f.s * rx
    IN  [n |-> f.n,
         x |-> r[1] + sx,
         y |-> r[2] + sy,
         t |-> f.t \div 4,
         s |-> f.s * 2,
         computed |-> {f.x, f.y, half, rx, txr, ry, r[1], r[2], sx, sy,
                       r[1] + sx, r[2] + sy, f.t \div 4, f.s * 2}
                      \cup _hilbert_rotate_computed(f.s, f.x, f.y, rx, ry)]

\* one iteration of the while loop, lines 43-49
hilbert_index_to_point_body(f) ==
    LET half == f.t \div 2
        rx   == BitAnd(1, half)
        txr  == BitXor(f.t, rx)
        ry   == BitAnd(1, txr)
        r    == _hilbert_rotate(f.s, f.x, f.y, rx, ry)
        sx   == f.s * rx
        sy   == f.s * ry
    IN  [n |-> f.n,
         x |-> r[1] + sx,
         y |-> r[2] + sy,
         t |-> f.t \div 4,
         s |-> f.s * 2,
         computed |-> {f.x, f.y, half, rx, txr, ry, r[1], r[2], sx, sy,
                       r[1] + sx, r[2] + sy, f.t \div 4, f.s * 2}
                      \cup _hilbert_rotate_computed(f.s, f.x, f.y, rx, ry)]

RECURSIVE hilbert_index_to_point_loop(_)
\* while s < n: body
hilbert_index_to_point_loop(f) ==
    IF f.s < f.n
    THEN hilbert_index_to_point_loop(hilbert_index_to_point_body(f))
    ELSE f

hilbert_index_to_point(order, index) ==
    LET f == hilbert_index_to_point_loop(hilbert_index_to_point_entry(order, index))
    IN  <<f.x, f.y>>

----------------------------------------------------------------------------
(* point_to_hilbert_index *)

\* the entry with s = n * 2 in place of s = n // 2
point_to_hilbert_index_entry_doubled(x, y, order) ==
    [n |-> Pow(2, order), x |-> x, y |-> y, index |-> 0,
     s |-> Pow(2, order) * 2,
     computed |-> {order, x, y, Pow(2, order), 0, Pow(2, order) * 2}]

\* locals after lines 63-65
point_to_hilbert_index_entry(x, y, order) ==
    [n |-> Pow(2, order), x |-> x, y |-> y, index |-> 0,
     s |-> Pow(2, order) \div 2,
     computed |-> {order, x, y, Pow(2, order), 0, Pow(2, order) \div 2}]

\* the loop body with index += s * s * ((3 * rx) + ry), + in place of ^
point_to_hilbert_index_body_plus(f) ==
    LET xs   == BitAnd(f.x, f.s)
        ys   == BitAnd(f.y, f.s)
        rx   == IF xs > 0 THEN 1 ELSE 0
        ry   == IF ys > 0 THEN 1 ELSE 0
        rx3  == 3 * rx
        quad == rx3 + ry
        ss   == f.s * f.s
        term == ss * quad
        r    == _hilbert_rotate(f.s, f.x, f.y, rx, ry)
    IN  [n |-> f.n,
         x |-> r[1],
         y |-> r[2],
         index |-> f.index + term,
         s |-> f.s \div 2,
         computed |-> {f.x, f.y, xs, ys, rx, ry, rx3, quad, ss, term,
                       f.index + term, r[1], r[2], f.s \div 2}
                      \cup _hilbert_rotate_computed(f.s, f.x, f.y, rx, ry)]

\* the loop body with the quadrant bits taken by comparison, x >= s and
\* y >= s, in place of the bit tests x & s and y & s
point_to_hilbert_index_body_compare(f) ==
    LET xs   == BitAnd(f.x, f.s)
        ys   == BitAnd(f.y, f.s)
        rx   == IF f.x >= f.s THEN 1 ELSE 0
        ry   == IF f.y >= f.s THEN 1 ELSE 0
        rx3  == 3 * rx
        quad == BitXor(rx3, ry)
        ss   == f.s * f.s
        term == ss * quad
        r    == _hilbert_rotate(f.s, f.x, f.y, rx, ry)
    IN  [n |-> f.n,
         x |-> r[1],
         y |-> r[2],
         index |-> f.index + term,
         s |-> f.s \div 2,
         computed |-> {f.x, f.y, xs, ys, rx, ry, rx3, quad, ss, term,
                       f.index + term, r[1], r[2], f.s \div 2}
                      \cup _hilbert_rotate_computed(f.s, f.x, f.y, rx, ry)]

\* one iteration of the while loop, lines 67-71
point_to_hilbert_index_body(f) ==
    LET xs   == BitAnd(f.x, f.s)
        ys   == BitAnd(f.y, f.s)
        rx   == IF xs > 0 THEN 1 ELSE 0
        ry   == IF ys > 0 THEN 1 ELSE 0
        rx3  == 3 * rx
        quad == BitXor(rx3, ry)
        ss   == f.s * f.s
        term == ss * quad
        r    == _hilbert_rotate(f.s, f.x, f.y, rx, ry)
    IN  [n |-> f.n,
         x |-> r[1],
         y |-> r[2],
         index |-> f.index + term,
         s |-> f.s \div 2,
         computed |-> {f.x, f.y, xs, ys, rx, ry, rx3, quad, ss, term,
                       f.index + term, r[1], r[2], f.s \div 2}
                      \cup _hilbert_rotate_computed(f.s, f.x, f.y, rx, ry)]

RECURSIVE point_to_hilbert_index_loop(_)
\* while s > 0: body
point_to_hilbert_index_loop(f) ==
    IF f.s > 0
    THEN point_to_hilbert_index_loop(point_to_hilbert_index_body(f))
    ELSE f

point_to_hilbert_index(x, y, order) ==
    point_to_hilbert_index_loop(point_to_hilbert_index_entry(x, y, order)).index

----------------------------------------------------------------------------
(* Derived utilities *)

\* the enumeration with num_points = 2 ** order * 2
generate_hilbert_points_short(order) ==
    LET num_points == Pow(2, order) * 2
    IN  [k \in 1..num_points |-> hilbert_index_to_point(order, k - 1)]

\* tuple(hilbert_index_to_point(order, i) for i in range(num_points));
\* element i of the Python tuple is element i + 1 of the sequence
generate_hilbert_points(order) ==
    LET num_points == Pow(2, 2 * order)
    IN  [k \in 1..num_points |-> hilbert_index_to_point(order, k - 1)]

\* matrix[x][y] of the Python tuple is [x + 1][y + 1] of the sequence
hilbert_index_matrix(order) ==
    LET size == Pow(2, order)
    IN  [i \in 1..size |->
            [j \in 1..size |-> point_to_hilbert_index(i - 1, j - 1, order)]]

\* the assignment that keeps the first position seen for a key
DictSet_first_wins(d, key, value) ==
    [k \in DOMAIN d \cup {key} |-> IF k \in DOMAIN d THEN d[k] ELSE value]

\* d[val] = (x, y): a later assignment to the same key overwrites
DictSet(d, key, value) ==
    [k \in DOMAIN d \cup {key} |-> IF k = key THEN value ELSE d[k]]

RECURSIVE ScanRow(_, _, _, _)
\* for y, val in enumerate(row), from 0-based column y on
ScanRow(d, x, row, y) ==
    IF y >= Len(row) THEN d
    ELSE ScanRow(DictSet(d, row[y + 1], <<x, y>>), x, row, y + 1)

RECURSIVE ScanGrid(_, _, _)
\* for x, row in enumerate(grid), from 0-based row x on
ScanGrid(d, grid, x) ==
    IF x >= Len(grid) THEN d
    ELSE ScanGrid(ScanRow(d, x, grid[x + 1], 0), grid, x + 1)

hilbert_curve_to_coordinates(grid) == ScanGrid(<<>>, grid, 0)

----------------------------------------------------------------------------
(* Compatibility functions *)

point_from_distance(order, index) == hilbert_index_to_point(order, index)

distance_from_point(order, x, y) == point_to_hilbert_index(x, y, order)

hilbert_position_at(x, y) == HILBERT_3[x + 1][y + 1]

----------------------------------------------------------------------------
(* The caller *)

Orders == 0..MaxOrder

Indices(order) == 0..(OverRange * Pow(4, order) - 1)

Coords(order) == 0..(OverRange * Pow(2, order) - 1)

Rows == UNION {[1..k -> 0..MaxVal] : k \in 0..MaxCols}

Grids == UNION {[1..k -> Rows] : k \in 0..MaxRows}

NoFrame == <<>>

NoValue == <<>>

Init ==
    /\ pc = "idle"
    /\ call = [op |-> "none", args |-> <<>>]
    /\ fr = NoFrame
    /\ ret = NoValue

Call_hilbert_index_to_point ==
    /\ pc = "idle"
    /\ \E order \in Orders : \E index \in Indices(order) :
          /\ call' = [op |-> "hilbert_index_to_point", args |-> <<order, index>>]
          /\ fr' = hilbert_index_to_point_entry(order, index)
    /\ pc' = "index_to_point"
    /\ ret' = NoValue

Loop_hilbert_index_to_point ==
    /\ pc = "index_to_point"
    /\ fr.s < fr.n
    /\ fr' = hilbert_index_to_point_body(fr)
    /\ UNCHANGED <<pc, call, ret>>

Return_hilbert_index_to_point ==
    /\ pc = "index_to_point"
    /\ ~(fr.s < fr.n)
    /\ ret' = <<fr.x, fr.y>>
    /\ pc' = "returned"
    /\ fr' = NoFrame
    /\ UNCHANGED call

Call_point_to_hilbert_index ==
    /\ pc = "idle"
    /\ \E order \in Orders : \E x \in Coords(order) : \E y \in Coords(order) :
          /\ call' = [op |-> "point_to_hilbert_index", args |-> <<x, y, order>>]
          /\ fr' = point_to_hilbert_index_entry(x, y, order)
    /\ pc' = "point_to_index"
    /\ ret' = NoValue

Loop_point_to_hilbert_index ==
    /\ pc = "point_to_index"
    /\ fr.s > 0
    /\ fr' = point_to_hilbert_index_body(fr)
    /\ UNCHANGED <<pc, call, ret>>

Return_point_to_hilbert_index ==
    /\ pc = "point_to_index"
    /\ ~(fr.s > 0)
    /\ ret' = fr.index
    /\ pc' = "returned"
    /\ fr' = NoFrame
    /\ UNCHANGED call

Call_generate_hilbert_points ==
    /\ pc = "idle"
    /\ \E order \in Orders :
          /\ call' = [op |-> "generate_hilbert_points", args |-> <<order>>]
          /\ ret' = generate_hilbert_points(order)
    /\ pc' = "returned"
    /\ UNCHANGED fr

Call_hilbert_index_matrix ==
    /\ pc = "idle"
    /\ \E order \in Orders :
          /\ call' = [op |-> "hilbert_index_matrix", args |-> <<order>>]
          /\ ret' = hilbert_index_matrix(order)
    /\ pc' = "returned"
    /\ UNCHANGED fr

Call_hilbert_curve_to_coordinates ==
    /\ pc = "idle"
    /\ \E grid \in Grids :
          /\ call' = [op |-> "hilbert_curve_to_coordinates", args |-> <<grid>>]
          /\ ret' = hilbert_curve_to_coordinates(grid)
    /\ pc' = "returned"
    /\ UNCHANGED fr

Call_point_from_distance ==
    /\ pc = "idle"
    /\ \E order \in Orders : \E index \in Indices(order) :
          /\ call' = [op |-> "point_from_distance", args |-> <<order, index>>]
          /\ ret' = point_from_distance(order, index)
    /\ pc' = "returned"
    /\ UNCHANGED fr

\* a positional call distance_from_point(a, b, c)
Call_distance_from_point ==
    /\ pc = "idle"
    /\ \E a \in 0..(Pow(2, MaxOrder) - 1) :
       \E b \in 0..(Pow(2, MaxOrder) - 1) :
       \E c \in 0..(Pow(2, MaxOrder) - 1) :
          /\ call' = [op |-> "distance_from_point", args |-> <<a, b, c>>]
          /\ ret' = distance_from_point(a, b, c)
    /\ pc' = "returned"
    /\ UNCHANGED fr

Call_hilbert_position_at ==
    /\ pc = "idle"
    /\ \E x \in 0..7 : \E y \in 0..7 :
          /\ call' = [op |-> "hilbert_position_at", args |-> <<x, y>>]
          /\ ret' = hilbert_position_at(x, y)
    /\ pc' = "returned"
    /\ UNCHANGED fr

\* the caller drops the result; its next call starts from scratch
Discard ==
    /\ pc = "returned"
    /\ pc' = "idle"
    /\ call' = [op |-> "none", args |-> <<>>]
    /\ ret' = NoValue
    /\ UNCHANGED fr

Next ==
    \/ Call_hilbert_index_to_point
    \/ Loop_hilbert_index_to_point
    \/ Return_hilbert_index_to_point
    \/ Call_point_to_hilbert_index
    \/ Loop_point_to_hilbert_index
    \/ Return_point_to_hilbert_index
    \/ Call_generate_hilbert_points
    \/ Call_hilbert_index_matrix
    \/ Call_hilbert_curve_to_coordinates
    \/ Call_point_from_distance
    \/ Call_distance_from_point
    \/ Call_hilbert_position_at
    \/ Discard

Spec == Init /\ [][Next]_vars

TypeOK == pc \in {"idle", "index_to_point", "point_to_index", "returned"}

----------------------------------------------------------------------------
(* Properties *)

Returned(op) == pc = "returned" /\ call.op = op

ValidIndex(order, i) == i \in 0..(Pow(4, order) - 1)

ValidCoord(order, c) == c \in 0..(Pow(2, order) - 1)

Abs(a) == IF a < 0 THEN -a ELSE a

Max(a, b) == IF a >= b THEN a ELSE b

Chebyshev(p, q) == Max(Abs(q[1] - p[1]), Abs(q[2] - p[2]))

\* C1: on their valid domains hilbert_index_to_point and
\* point_to_hilbert_index are mutual inverses: the point returned for a valid
\* index i maps back to i, and the index returned for a valid point (x, y)
\* maps back to (x, y).
C1_MutualInverses ==
    /\ (/\ Returned("hilbert_index_to_point")
        /\ ValidIndex(call.args[1], call.args[2]))
       => point_to_hilbert_index(ret[1], ret[2], call.args[1]) = call.args[2]
    /\ (/\ Returned("point_to_hilbert_index")
        /\ ValidCoord(call.args[3], call.args[1])
        /\ ValidCoord(call.args[3], call.args[2]))
       => hilbert_index_to_point(call.args[3], ret) = <<call.args[1], call.args[2]>>

C1_Witness ==
    /\ Returned("hilbert_index_to_point")
    /\ call.args = <<2, 13>>
    /\ ret = <<2, 1>>

\* C2: generate_hilbert_points(n) has length 4^n, element i is
\* hilbert_index_to_point(n, i), the points are pairwise distinct and their
\* set is the whole grid [0, 2^n - 1] x [0, 2^n - 1].
C2_EnumerationIsGrid ==
    Returned("generate_hilbert_points") =>
        LET n == call.args[1]
            side == 0..(Pow(2, n) - 1)
        IN  /\ Len(ret) = Pow(4, n)
            /\ \A i \in 0..(Pow(4, n) - 1) :
                  ret[i + 1] = hilbert_index_to_point(n, i)
            /\ \A i, j \in 1..Len(ret) : i # j => ret[i] # ret[j]
            /\ {ret[i] : i \in 1..Len(ret)} = side \X side

C2_Witness ==
    /\ Returned("generate_hilbert_points")
    /\ call.args = <<2>>
    /\ Len(ret) = 16
    /\ ret[16] = <<3, 0>>

\* C3: for order n >= 1 the points of two consecutive valid indices i, i + 1
\* are at Chebyshev distance exactly 1.
C3_ConsecutiveAdjacent ==
    (/\ Returned("hilbert_index_to_point")
     /\ call.args[1] >= 1
     /\ ValidIndex(call.args[1], call.args[2])
     /\ ValidIndex(call.args[1], call.args[2] + 1))
    => Chebyshev(ret, hilbert_index_to_point(call.args[1], call.args[2] + 1)) = 1

C3_Witness ==
    /\ Returned("hilbert_index_to_point")
    /\ call.args = <<3, 31>>
    /\ ret = <<3, 4>>

\* C4: hilbert_index_matrix(n) is 2^n x 2^n, cell [x][y] is
\* point_to_hilbert_index(x, y, n), and every value of 0..4^n - 1 occurs in
\* exactly one cell.
C4_MatrixIsPermutation ==
    Returned("hilbert_index_matrix") =>
        LET n == call.args[1]
            size == Pow(2, n)
            cells == (1..size) \X (1..size)
        IN  /\ Len(ret) = size
            /\ \A i \in 1..size : Len(ret[i]) = size
            /\ \A c \in cells :
                  ret[c[1]][c[2]] = point_to_hilbert_index(c[1] - 1, c[2] - 1, n)
            /\ \A c \in cells : ret[c[1]][c[2]] \in 0..(Pow(4, n) - 1)
            /\ \A v \in 0..(Pow(4, n) - 1) :
                  Cardinality({c \in cells : ret[c[1]][c[2]] = v}) = 1

C4_Witness ==
    /\ Returned("hilbert_index_matrix")
    /\ call.args = <<2>>
    /\ ret[4][1] = 15
    /\ ret[1][4] = 5

\* C5: the order-3 reference table agrees with the codec under the (x, y)
\* convention: hilbert_position_at(x, y) = point_to_hilbert_index(x, y, 3)
\* for every x, y in 0..7.
C5_ReferenceTableAgrees ==
    Returned("hilbert_position_at") =>
        ret = point_to_hilbert_index(call.args[1], call.args[2], 3)

\* C6: each alias returns what its primary returns: point_from_distance(n, i)
\* is hilbert_index_to_point(n, i) for valid i, and distance_from_point called
\* positionally with (x, y, n) is point_to_hilbert_index(x, y, n) for valid
\* x, y.
C6_AliasesMatchPrimaries ==
    /\ (/\ Returned("point_from_distance")
        /\ ValidIndex(call.args[1], call.args[2]))
       => ret = hilbert_index_to_point(call.args[1], call.args[2])
    /\ (/\ Returned("distance_from_point")
        /\ call.args[3] \in Orders
        /\ ValidCoord(call.args[3], call.args[1])
        /\ ValidCoord(call.args[3], call.args[2]))
       => ret = point_to_hilbert_index(call.args[1], call.args[2], call.args[3])

\* C7: generate_hilbert_points(1) is exactly (0,0), (0,1), (1,1), (1,0).
C7_OrderOneSequence ==
    (Returned("generate_hilbert_points") /\ call.args[1] = 1)
    => ret = << <<0, 0>>, <<0, 1>>, <<1, 1>>, <<1, 0>> >>

C7_Witness ==
    /\ Returned("generate_hilbert_points")
    /\ call.args = <<1>>
    /\ Len(ret) = 4

\* the 0-based (row, column) positions of the cells of a grid
Cells(grid) ==
    {<<x, y>> \in (0..(MaxRows + 1)) \X (0..(MaxCols + 1)) :
        x < Len(grid) /\ y < Len(grid[x + 1])}

\* p comes before q in the row-major scan
RowMajorBefore(p, q) == p[1] < q[1] \/ (p[1] = q[1] /\ p[2] < q[2])

\* C8: hilbert_curve_to_coordinates(grid) has exactly the values present in
\* the grid as keys and maps each value to the (row, column) of the last
\* cell holding it in row-major order.
C8_LastSeenWins ==
    Returned("hilbert_curve_to_coordinates") =>
        LET grid == call.args[1]
            at(p) == grid[p[1] + 1][p[2] + 1]
        IN  /\ DOMAIN ret = {at(p) : p \in Cells(grid)}
            /\ \A v \in DOMAIN ret :
                  /\ ret[v] \in Cells(grid)
                  /\ at(ret[v]) = v
                  /\ \A q \in Cells(grid) :
                        at(q) = v => (q = ret[v] \/ RowMajorBefore(q, ret[v]))

C8_Witness ==
    /\ Returned("hilbert_curve_to_coordinates")
    /\ call.args[1] = << <<1, 0>>, <<1>> >>
    /\ ret[1] = <<1, 0>>
    /\ ret[0] = <<0, 1>>

\* C9: out-of-range inputs are not rejected: for an index i >= 4^n
\* hilbert_index_to_point(n, i) returns the in-grid point of i mod 4^n, and
\* for x or y >= 2^n point_to_hilbert_index(x, y, n) returns the index, in
\* 0..4^n - 1, of (x mod 2^n, y mod 2^n).
C9_OutOfRangeWraps ==
    /\ (/\ Returned("hilbert_index_to_point")
        /\ call.args[2] >= Pow(4, call.args[1]))
       => LET n == call.args[1]
          IN  /\ ValidCoord(n, ret[1])
              /\ ValidCoord(n, ret[2])
              /\ ret = hilbert_index_to_point(n, call.args[2] % Pow(4, n))
    /\ (/\ Returned("point_to_hilbert_index")
        /\ (\/ call.args[1] >= Pow(2, call.args[3])
            \/ call.args[2] >= Pow(2, call.args[3])))
       => LET n == call.args[3]
          IN  /\ ValidIndex(n, ret)
              /\ ret = point_to_hilbert_index(call.args[1] % Pow(2, n),
                                              call.args[2] % Pow(2, n), n)

C9_Witness ==
    /\ Returned("point_to_hilbert_index")
    /\ call.args = <<5, 2, 2>>
    /\ ret = 7

\* the integers a codec call holds or has just computed
Held ==
    IF pc = "index_to_point"
    THEN fr.computed \cup {fr.n, fr.x, fr.y, fr.t, fr.s}
    ELSE IF pc = "point_to_index"
    THEN fr.computed \cup {fr.n, fr.x, fr.y, fr.index, fr.s}
    ELSE {}

ValidCall ==
    \/ /\ pc = "index_to_point"
       /\ ValidIndex(call.args[1], call.args[2])
    \/ /\ pc = "point_to_index"
       /\ ValidCoord(call.args[3], call.args[1])
       /\ ValidCoord(call.args[3], call.args[2])

CallOrder == IF pc = "index_to_point" THEN call.args[1] ELSE call.args[3]

\* C10: on valid inputs every integer held or computed at any step of the
\* two codec loops is at most 2^(2n) and lies in the signed (2n + 2)-bit
\* range [-2^(2n+1), 2^(2n+1) - 1].
C10_ValuesFitWidth ==
    ValidCall =>
        \A v \in Held :
            /\ v <= Pow(2, 2 * CallOrder)
            /\ v >= -Pow(2, 2 * CallOrder + 1)
            /\ v <= Pow(2, 2 * CallOrder + 1) - 1

C10_Witness ==
    /\ pc = "point_to_index"
    /\ call.args = <<3, 1, 2>>
    /\ fr.s = 1
    /\ -2 \in fr.computed

====
